---- MODULE Spec2Model ----
(***************************************************************************)
(* A model of the m3u8parse library (src/src/lib.rs): M3U8::from_uri       *)
(* (line normalisation, validation, the tag-dispatching parse loop) and    *)
(* the three sorted accessors.                                             *)
(*                                                                         *)
(* A Rust String is modelled as a sequence of one-character strings, so    *)
(* that split, replace, comparison and equality are computed character by  *)
(* character as the code computes them.  A HashMap<String, String> is a    *)
(* function whose domain is the set of its keys.                           *)
(***************************************************************************)
EXTENDS Integers, Sequences, FiniteSets, TLC

VARIABLES
    body,                  \* the text the fetch returns (respose.text())
    lines,                 \* from_uri's `lines`: the non-empty lines of body
    pc,                    \* position of from_uri: start, parsing, ok, failed
    cursor,                \* index of the line iter_lines.next() yields next
    result,                \* what from_uri returned: [kind, msg]
    independent_segments,  \* M3U8 fields
    version,
    media_tags,
    variant_streams,
    media_resources,
    call,                  \* the last sorted-accessor call: [op, sort_by]
    returned,              \* the Vec that call returned
    data,                  \* by_attribute's argument (attribute-list runs)
    attribute_map,         \* by_attribute's result
    attr_done              \* by_attribute has returned

vars == <<body, lines, pc, cursor, result, independent_segments, version,
          media_tags, variant_streams, media_resources, call, returned,
          data, attribute_map, attr_done>>

m3u8 == <<independent_segments, version, media_tags, variant_streams,
          media_resources>>

attr_vars == <<data, attribute_map, attr_done>>

(***************************************************************************)
(* Bounds of the model.                                                    *)
(***************************************************************************)
\* Longest document, in fragments, of the general document family.
MaxLines == 3
\* Most record-producing fragments after the header in the record family.
MaxRecords == 3
\* Longest attribute-list payload, in characters.
MaxPayload == 5

(***************************************************************************)
(* Tag literals, lib.rs lines 12-17.                                       *)
(***************************************************************************)
EXTM3U == <<"#","E","X","T","M","3","U">>
EXT_X_INDEPENDENT_SEGMENTS ==
    <<"#","E","X","T","-","X","-","I","N","D","E","P","E","N","D","E","N","T",
      "-","S","E","G","M","E","N","T","S">>
EXT_X_VERSION == <<"#","E","X","T","-","X","-","V","E","R","S","I","O","N">>
EXT_X_MEDIA == <<"#","E","X","T","-","X","-","M","E","D","I","A">>
EXT_X_I_FRAME_STREAM_INF ==
    <<"#","E","X","T","-","X","-","I","-","F","R","A","M","E","-","S","T","R",
      "E","A","M","-","I","N","F">>
EXT_X_STREAM_INF ==
    <<"#","E","X","T","-","X","-","S","T","R","E","A","M","-","I","N","F">>

(***************************************************************************)
(* Strings.                                                                *)
(***************************************************************************)
\* The printable ASCII characters in byte order, from 32 (space) to 126
\* (byte 96, the grave accent, is written GRAVE).
Ascii ==
    <<" ","!","\"","#","$","%","&","'","(",")","*","+",",","-",".","/",
      "0","1","2","3","4","5","6","7","8","9",":",";","<","=",">","?","@",
      "A","B","C","D","E","F","G","H","I","J","K","L","M","N","O","P","Q",
      "R","S","T","U","V","W","X","Y","Z","[","\\","]","^","_","GRAVE",
      "a","b","c","d","e","f","g","h","i","j","k","l","m","n","o","p","q",
      "r","s","t","u","v","w","x","y","z","{","|","}","~">>

\* The byte of a character: "\n" is 10, "\r" is 13, the rest by Ascii.
Byte(c) ==
    IF c = "\n" THEN 10
    ELSE IF c = "\r" THEN 13
    ELSE 31 + (CHOOSE i \in 1..Len(Ascii) : Ascii[i] = c)

\* The index of the first occurrence of character c in s, or 0.
FirstIndex(s, c) ==
    IF \E i \in 1..Len(s) : s[i] = c
    THEN CHOOSE i \in 1..Len(s) : s[i] = c /\ \A j \in 1..(i-1) : s[j] # c
    ELSE 0

\* str::split(sep) collected: the pieces between the separators; a string
\* without the separator (the empty one too) is a single piece.
RECURSIVE Split(_, _)
Split(s, sep) ==
    LET i == FirstIndex(s, sep) IN
    IF i = 0 THEN <<s>>
    ELSE <<SubSeq(s, 1, i-1)>> \o Split(SubSeq(s, i+1, Len(s)), sep)

\* str::lines(): split after each "\n"; a line loses its "\n" and then one
\* "\r" before it; a last line without "\n" is kept as it is; text ending in
\* "\n" has no further empty line.
RECURSIVE StrLines(_)
StrLines(s) ==
    LET i == FirstIndex(s, "\n") IN
    IF s = <<>> THEN <<>>
    ELSE IF i = 0 THEN <<s>>
    ELSE LET l == SubSeq(s, 1, i-1)
             m == IF Len(l) > 0 /\ l[Len(l)] = "\r"
                  THEN SubSeq(l, 1, Len(l)-1) ELSE l
         IN <<m>> \o StrLines(SubSeq(s, i+1, Len(s)))

\* str::replace(&['"', '\''][..], ""): every quote character removed.
RemoveQuotes(s) == SelectSeq(s, LAMBDA c : c # "\"" /\ c # "'")

\* A variant of StrCmp that orders digit strings as numbers: the shorter
\* string first, strings of one length byte by byte.
StrCmpShorterFirst(a, b) ==
    LET d == {i \in 1..Len(a) : i <= Len(b) /\ a[i] # b[i]} IN
    IF Len(a) < Len(b) THEN -1
    ELSE IF Len(a) > Len(b) THEN 1
    ELSE IF d = {} THEN 0
    ELSE LET i == CHOOSE x \in d : \A y \in d : x <= y IN
         IF Byte(a[i]) < Byte(b[i]) THEN -1 ELSE 1

\* str::cmp: byte-wise lexicographic Ordering: -1 Less, 0 Equal, 1 Greater.
RECURSIVE StrCmp(_, _)
StrCmp(a, b) ==
    IF a = <<>> /\ b = <<>> THEN 0
    ELSE IF a = <<>> THEN -1
    ELSE IF b = <<>> THEN 1
    ELSE IF a[1] = b[1] THEN StrCmp(Tail(a), Tail(b))
    ELSE IF Byte(a[1]) < Byte(b[1]) THEN -1 ELSE 1

(***************************************************************************)
(* HashMap<String, String>.                                                *)
(***************************************************************************)
EmptyMap == [k \in {} |-> <<>>]

MapInsert(map, k, val) ==
    [x \in (DOMAIN map) \cup {k} |-> IF x = k THEN val ELSE map[x]]

(***************************************************************************)
(* TagTypes::from_str: exact equality against the six tag literals.        *)
(***************************************************************************)
from_str(input) ==
    IF input = EXTM3U THEN "ExtM3U"
    ELSE IF input = EXT_X_INDEPENDENT_SEGMENTS THEN "ExtXIndependentSegments"
    ELSE IF input = EXT_X_VERSION THEN "ExtXVersion"
    ELSE IF input = EXT_X_MEDIA THEN "ExtXMedia"
    ELSE IF input = EXT_X_I_FRAME_STREAM_INF THEN "ExtXIFrameStreamInf"
    ELSE IF input = EXT_X_STREAM_INF THEN "ExtXStreamInf"
    ELSE "Err"

\* A variant of validate that classifies the first line by its text before
\* the first ':', as the builder classifies a line.
validate_by_prefix(ls) ==
    IF Len(ls) = 0 THEN "Invalid M3U8 format"
    ELSE IF from_str(Split(ls[1], ":")[1]) # "ExtM3U" THEN "Missing #EXTM3U"
    ELSE IF Cardinality({i \in 1..Len(ls) : from_str(ls[i]) = "ExtXVersion"}) > 1
         THEN "Invalid M3U8, multiple version tags found."
    ELSE ""

(***************************************************************************)
(* M3U8::validate: "" for Ok(()), else the message of the InvalidM3U8.     *)
(***************************************************************************)
validate(ls) ==
    IF Len(ls) = 0 THEN "Invalid M3U8 format"
    ELSE IF from_str(ls[1]) # "ExtM3U" THEN "Missing #EXTM3U"
    ELSE IF Cardinality({i \in 1..Len(ls) : from_str(ls[i]) = "ExtXVersion"}) > 1
         THEN "Invalid M3U8, multiple version tags found."
    ELSE ""

(***************************************************************************)
(* M3U8::get_key_value_pair: <<>> for None, <<(key, value)>> for Some:     *)
(* the first two pieces of item.split('='), the value without quotes.      *)
(***************************************************************************)
get_key_value_pair(item) ==
    LET attr == Split(item, "=") IN
    IF Len(attr) < 2 THEN <<>>
    ELSE << <<attr[1], RemoveQuotes(attr[2])>> >>

(***************************************************************************)
(* M3U8::by_attribute: the items of data.split(',') inserted in order.     *)
(***************************************************************************)
RECURSIVE InsertItems(_, _)
InsertItems(map, items) ==
    IF items = <<>> THEN map
    ELSE LET kv == get_key_value_pair(Head(items)) IN
         InsertItems(IF kv = <<>> THEN map
                     ELSE MapInsert(map, kv[1][1], kv[1][2]),
                     Tail(items))

by_attribute(d) == InsertItems(EmptyMap, Split(d, ","))

(***************************************************************************)
(* M3U8::by_value: the first two pieces of line.split(':'), "" for a       *)
(* missing one.                                                            *)
(***************************************************************************)
by_value(line) ==
    LET attribute == Split(line, ":") IN
    <<attribute[1], IF Len(attribute) >= 2 THEN attribute[2] ELSE <<>> >>

(***************************************************************************)
(* M3U8::sort_list_by_key: slice::sort_by, a stable sort, by the value at  *)
(* sort_by, "" for a record without the key.                               *)
(***************************************************************************)
SortItem(rec, sort_by) == IF sort_by \in DOMAIN rec THEN rec[sort_by] ELSE <<>>

RECURSIVE SortedInsert(_, _, _)
SortedInsert(acc, x, sort_by) ==
    IF acc = <<>> THEN <<x>>
    ELSE LET last == acc[Len(acc)] IN
         IF StrCmp(SortItem(last, sort_by), SortItem(x, sort_by)) <= 0
         THEN Append(acc, x)
         ELSE Append(SortedInsert(SubSeq(acc, 1, Len(acc)-1), x, sort_by), last)

\* A variant of sort_list_by_key that keeps one record per value of the key.
RECURSIVE sort_list_one_per_key(_, _)
sort_list_one_per_key(list, sort_by) ==
    IF list = <<>> THEN <<>>
    ELSE LET rest == sort_list_one_per_key(SubSeq(list, 1, Len(list)-1), sort_by)
             x == list[Len(list)]
         IN IF \E i \in 1..Len(rest) :
                   SortItem(rest[i], sort_by) = SortItem(x, sort_by)
            THEN rest
            ELSE SortedInsert(rest, x, sort_by)

RECURSIVE sort_list_by_key(_, _)
sort_list_by_key(list, sort_by) ==
    IF list = <<>> THEN <<>>
    ELSE SortedInsert(sort_list_by_key(SubSeq(list, 1, Len(list)-1), sort_by),
                      list[Len(list)], sort_by)

Reverse(list) == [i \in 1..Len(list) |-> list[Len(list) + 1 - i]]


(***************************************************************************)
(* Inputs.  A document is the concatenation of fragments of text; a        *)
(* fragment carries its own line ending ("\n", "\r\n" or none), so that    *)
(* the line normaliser decides what the lines are.                         *)
(***************************************************************************)
NL == <<"\n">>
CRLF == <<"\r", "\n">>
uri == <<"u","r","i">>
BANDWIDTH == <<"B","A","N","D","W","I","D","T","H">>
CHANNELS == <<"C","H","A","N","N","E","L","S">>

\* The fragments of the general document family.
Fragments ==
    { EXTM3U \o NL,
      EXTM3U \o CRLF,
      EXTM3U \o <<":","x">> \o NL,
      NL,
      EXT_X_VERSION \o <<":","3">> \o NL,
      EXT_X_VERSION \o <<":","a",":","b">> \o NL,
      EXT_X_VERSION \o NL,
      EXT_X_VERSION \o <<":">> \o NL,
      EXT_X_INDEPENDENT_SEGMENTS \o NL,
      EXT_X_INDEPENDENT_SEGMENTS \o <<":","1">> \o NL,
      EXT_X_STREAM_INF \o <<":">> \o BANDWIDTH \o <<"=","9">> \o NL,
      EXT_X_MEDIA \o <<":","U","R","I","=","\"","h","t","t","p",":","/","/",
                       "h","/","p","\"",",","K","=","a","=","b">> \o NL,
      EXT_X_I_FRAME_STREAM_INF \o <<":">> \o BANDWIDTH \o <<"=","7">> \o NL,
      <<"#","E","X","T","-","X","-","F","O","O",":","1">> \o NL,
      <<"v",".","m","3","u","8">> }

\* The fragments of the record family: the attribute values of the test
\* it_parses_example_uri, a record without BANDWIDTH, and two records that
\* tie on BANDWIDTH.  A stream-info fragment brings its URI line.
RecordFragments ==
    { EXT_X_I_FRAME_STREAM_INF \o <<":">> \o BANDWIDTH
          \o <<"=","2","2","2","5","5","2",",","U","R","I","=","a">> \o NL,
      EXT_X_I_FRAME_STREAM_INF \o <<":">> \o BANDWIDTH
          \o <<"=","7","7","7","5","8",",","U","R","I","=","b">> \o NL,
      EXT_X_I_FRAME_STREAM_INF \o <<":">> \o BANDWIDTH
          \o <<"=","7","7","7","5","8",",","U","R","I","=","d">> \o NL,
      EXT_X_I_FRAME_STREAM_INF \o <<":","U","R","I","=","c">> \o NL,
      EXT_X_MEDIA \o <<":">> \o CHANNELS
          \o <<"=","\"","1","6","/","J","O","C","\"">> \o NL,
      EXT_X_MEDIA \o <<":">> \o CHANNELS \o <<"=","6">> \o NL,
      EXT_X_STREAM_INF \o <<":">> \o BANDWIDTH
          \o <<"=","9","6","6","1","8","5","7">> \o NL \o <<"v","1">> \o NL,
      EXT_X_STREAM_INF \o <<":">> \o BANDWIDTH
          \o <<"=","1","0","4","2","9","8","7","7">> \o NL \o <<"v","2">> \o NL }

\* The sort keys the accessors are called with.
SortKeys == {BANDWIDTH, CHANNELS, uri}

\* The characters of the attribute-list payloads.
PayloadChars == {"K", "a", "=", ",", "\"", "'"}

SeqsUpTo(S, n) == UNION {[1..k -> S] : k \in 0..n}

RECURSIVE Concat(_)
Concat(fs) == IF fs = <<>> THEN <<>> ELSE Head(fs) \o Concat(Tail(fs))

Bodies ==
    {Concat(fs) : fs \in SeqsUpTo(Fragments, MaxLines)}
    \cup {EXTM3U \o NL \o Concat(fs) : fs \in SeqsUpTo(RecordFragments, MaxRecords)}

Payloads == SeqsUpTo(PayloadChars, MaxPayload)

NoCall == [op |-> "none", sort_by |-> <<>>]

(***************************************************************************)
(* The state before from_uri runs: no M3U8 exists; the field variables     *)
(* hold the Default::default() values until M3U8::new().                   *)
(***************************************************************************)
InitM3U8 ==
    /\ independent_segments = FALSE
    /\ version = <<>>
    /\ media_tags = <<>>
    /\ variant_streams = <<>>
    /\ media_resources = <<>>

InitCommon ==
    /\ lines = <<>>
    /\ pc = "start"
    /\ cursor = 1
    /\ result = [kind |-> "pending", msg |-> ""]
    /\ InitM3U8
    /\ call = NoCall
    /\ returned = <<>>
    /\ attribute_map = EmptyMap
    /\ attr_done = FALSE

Init ==
    /\ body \in Bodies
    /\ data = <<>>
    /\ InitCommon

(***************************************************************************)
(* from_uri, lines 231-232: the fetch fails and `?` returns the error.     *)
(***************************************************************************)
FetchFails ==
    /\ pc = "start"
    /\ pc' = "failed"
    /\ result' = [kind |-> "ReqwestError", msg |-> ""]
    /\ UNCHANGED <<body, lines, cursor, m3u8, call, returned, attr_vars>>

(***************************************************************************)
(* from_uri, lines 233-239: the non-empty lines of the body, validate, and *)
(* on success M3U8::new() (version "2", the rest default).                 *)
(***************************************************************************)
Normalize(text) == SelectSeq(StrLines(text), LAMBDA l : l # <<>>)

FromUri ==
    /\ pc = "start"
    /\ lines' = Normalize(body)
    /\ LET err == validate(lines') IN
       IF err # ""
       THEN /\ pc' = "failed"
            /\ result' = [kind |-> "InvalidM3U8", msg |-> err]
            /\ UNCHANGED <<cursor, m3u8>>
       ELSE /\ pc' = "parsing"
            /\ cursor' = 1
            /\ version' = <<"2">>
            /\ independent_segments' = FALSE
            /\ media_tags' = <<>>
            /\ variant_streams' = <<>>
            /\ media_resources' = <<>>
            /\ UNCHANGED result
    /\ UNCHANGED <<body, call, returned, attr_vars>>

(***************************************************************************)
(* M3U8::parse, lines 155-193: one iteration of the while loop.            *)
(***************************************************************************)
\* line 156-158: the piece before the first ':' classified.
TagType(line) == from_str(Split(line, ":")[1])

\* A variant of NextLineOrEmpty that keeps the next line up to its first ':'.
NextLineTagOrEmpty(ls, c) ==
    IF c + 1 <= Len(ls) THEN Split(ls[c + 1], ":")[1] ELSE <<>>

\* line 184: iter_lines.next().unwrap_or(""): the line after ls[c], if any.
NextLineOrEmpty(ls, c) == IF c + 1 <= Len(ls) THEN ls[c + 1] ELSE <<>>

\* A variant of NextCursor in which the stream-info arm reads the next line
\* without taking it from the iterator.
NextCursorNoSkip(tag_type, c) == c + 1

\* The cursor after the iteration at c: the stream-info arm has taken one
\* more line from the iterator.
NextCursor(tag_type, c) == IF tag_type = "ExtXStreamInf" THEN c + 2 ELSE c + 1

\* lines 182-185: the record the stream-info arm pushes.
StreamInfRecord(ls, c) ==
    MapInsert(by_attribute(by_value(ls[c])[2]), uri, NextLineOrEmpty(ls, c))

ParseLine ==
    /\ pc = "parsing"
    /\ cursor <= Len(lines)
    /\ LET line == lines[cursor]
           tag_type == TagType(line)
       IN /\ independent_segments' =
                 IF tag_type = "ExtXIndependentSegments" THEN TRUE
                 ELSE independent_segments
          /\ version' =
                 IF tag_type = "ExtXVersion" THEN by_value(line)[2] ELSE version
          /\ media_tags' =
                 IF tag_type = "ExtXMedia"
                 THEN Append(media_tags, by_attribute(by_value(line)[2]))
                 ELSE media_tags
          /\ media_resources' =
                 IF tag_type = "ExtXIFrameStreamInf"
                 THEN Append(media_resources, by_attribute(by_value(line)[2]))
                 ELSE media_resources
          /\ variant_streams' =
                 IF tag_type = "ExtXStreamInf"
                 THEN Append(variant_streams, StreamInfRecord(lines, cursor))
                 ELSE variant_streams
          /\ cursor' = NextCursor(tag_type, cursor)
    /\ UNCHANGED <<body, lines, pc, result, call, returned, attr_vars>>

(***************************************************************************)
(* The loop ends (iter_lines.next() is None) and from_uri returns Ok(m3u8).*)
(***************************************************************************)
ParseReturn ==
    /\ pc = "parsing"
    /\ cursor > Len(lines)
    /\ pc' = "ok"
    /\ result' = [kind |-> "Ok", msg |-> ""]
    /\ UNCHANGED <<body, lines, cursor, m3u8, call, returned, attr_vars>>

(***************************************************************************)
(* The sorted accessors, lines 212-227: sort the stored Vec in place, then *)
(* return its clone.                                                       *)
(***************************************************************************)
get_media_resources(sort_by) ==
    /\ pc = "ok"
    /\ media_resources' = sort_list_by_key(media_resources, sort_by)
    /\ returned' = media_resources'
    /\ call' = [op |-> "get_media_resources", sort_by |-> sort_by]
    /\ UNCHANGED <<body, lines, pc, cursor, result, independent_segments,
                   version, media_tags, variant_streams, attr_vars>>

\* A variant of get_media_tags that sorts the clone, not the stored Vec.
get_media_tags_sorts_clone(sort_by) ==
    /\ pc = "ok"
    /\ returned' = sort_list_by_key(media_tags, sort_by)
    /\ call' = [op |-> "get_media_tags", sort_by |-> sort_by]
    /\ UNCHANGED <<body, lines, pc, cursor, result, m3u8, attr_vars>>

get_media_tags(sort_by) ==
    /\ pc = "ok"
    /\ media_tags' = sort_list_by_key(media_tags, sort_by)
    /\ returned' = media_tags'
    /\ call' = [op |-> "get_media_tags", sort_by |-> sort_by]
    /\ UNCHANGED <<body, lines, pc, cursor, result, independent_segments,
                   version, variant_streams, media_resources, attr_vars>>

get_variant_streams(sort_by) ==
    /\ pc = "ok"
    /\ variant_streams' = sort_list_by_key(variant_streams, sort_by)
    /\ returned' = variant_streams'
    /\ call' = [op |-> "get_variant_streams", sort_by |-> sort_by]
    /\ UNCHANGED <<body, lines, pc, cursor, result, independent_segments,
                   version, media_tags, media_resources, attr_vars>>

(***************************************************************************)
(* The caller reorders a stored group, as the test does (lines 289, 295).  *)
(***************************************************************************)
ReverseMediaResources ==
    /\ pc = "ok"
    /\ media_resources' = Reverse(media_resources)
    /\ UNCHANGED <<body, lines, pc, cursor, result, independent_segments,
                   version, media_tags, variant_streams, call, returned,
                   attr_vars>>

ReverseMediaTags ==
    /\ pc = "ok"
    /\ media_tags' = Reverse(media_tags)
    /\ UNCHANGED <<body, lines, pc, cursor, result, independent_segments,
                   version, variant_streams, media_resources, call, returned,
                   attr_vars>>

GetMediaResources == \E sort_by \in SortKeys : get_media_resources(sort_by)
GetMediaTags == \E sort_by \in SortKeys : get_media_tags(sort_by)
GetVariantStreams == \E sort_by \in SortKeys : get_variant_streams(sort_by)

Next ==
    \/ FetchFails
    \/ FromUri
    \/ ParseLine
    \/ ParseReturn
    \/ GetMediaResources
    \/ GetMediaTags
    \/ GetVariantStreams
    \/ ReverseMediaResources
    \/ ReverseMediaTags

Spec == Init /\ [][Next]_vars

(***************************************************************************)
(* The attribute-list parser on its own: by_attribute applied to a payload.*)
(***************************************************************************)
InitAttr ==
    /\ body = <<>>
    /\ data \in Payloads
    /\ InitCommon

ByAttribute ==
    /\ ~attr_done
    /\ attribute_map' = by_attribute(data)
    /\ attr_done' = TRUE
    /\ UNCHANGED <<body, lines, pc, cursor, result, m3u8, call, returned, data>>

NextAttr == ByAttribute

SpecAttr == InitAttr /\ [][NextAttr]_vars


(***************************************************************************)
(* Notions the properties are stated with.                                 *)
(***************************************************************************)
\* The text of s before its first c: all of s when c does not occur.
Before(s, c) ==
    IF FirstIndex(s, c) = 0 THEN s ELSE SubSeq(s, 1, FirstIndex(s, c) - 1)

\* The whole text of s after its first c: empty when c does not occur.
After(s, c) ==
    IF FirstIndex(s, c) = 0 THEN <<>>
    ELSE SubSeq(s, FirstIndex(s, c) + 1, Len(s))

\* The lines whose text before the first ':' is the given tag.
TagLines(ls, tag) == {i \in 1..Len(ls) : Before(ls[i], ":") = tag}

\* The lines the builder dispatches, from line i on: a stream-info line
\* takes the line after it as its URI.
RECURSIVE DispatchedFrom(_, _)
DispatchedFrom(ls, i) ==
    IF i > Len(ls) THEN {}
    ELSE {i} \cup DispatchedFrom(ls, IF Before(ls[i], ":") = EXT_X_STREAM_INF
                                     THEN i + 2 ELSE i + 1)

\* from_uri ran past the fetch.
Fetched == pc # "start" /\ result.kind # "ReqwestError"

\* No M3U8 was constructed: M3U8::new() sets version to "2".
NoPlaylist == InitM3U8

\* The number of times x occurs in each sequence is the same.
SameRecords(s, t) ==
    /\ Len(s) = Len(t)
    /\ \A i \in 1..Len(s) :
           Cardinality({j \in 1..Len(s) : s[j] = s[i]})
               = Cardinality({j \in 1..Len(t) : t[j] = s[i]})

\* a <= b in the lexicographic order of the bytes.
LexLeq(a, b) ==
    \/ /\ Len(a) <= Len(b)
       /\ \A i \in 1..Len(a) : a[i] = b[i]
    \/ \E i \in 1..Len(a) :
           /\ i <= Len(b)
           /\ \A j \in 1..(i-1) : a[j] = b[j]
           /\ Byte(a[i]) < Byte(b[i])

\* The value a record is ordered by: "" when it lacks the key.
ValueAt(rec, key) == IF key \in DOMAIN rec THEN rec[key] ELSE <<>>

NonDecreasing(list, key) ==
    \A i, j \in 1..Len(list) :
        i < j => LexLeq(ValueAt(list[i], key), ValueAt(list[j], key))

\* The group an accessor works on.
Stored(op) ==
    IF op = "get_media_resources" THEN media_resources
    ELSE IF op = "get_media_tags" THEN media_tags
    ELSE variant_streams

N222552 == <<"2","2","2","5","5","2">>
N77758 == <<"7","7","7","5","8">>

\* The builder is about to dispatch a line classified as the given tag.
AtTag(tag) ==
    /\ pc = "parsing"
    /\ cursor <= Len(lines)
    /\ Before(lines[cursor], ":") = tag

(***************************************************************************)
(* C1.  Every document with two or more version-tag lines (text before the *)
(* first ':' exactly #EXT-X-VERSION) fails with InvalidM3U8 and produces   *)
(* no playlist.                                                            *)
(***************************************************************************)
C1_TwoVersionTagsFail ==
    (Fetched /\ Cardinality(TagLines(Normalize(body), EXT_X_VERSION)) >= 2)
        => (pc = "failed" /\ result.kind = "InvalidM3U8" /\ NoPlaylist)

(***************************************************************************)
(* C2.  Every document whose normalized line sequence is empty, or whose   *)
(* first line is not exactly #EXTM3U, fails with InvalidM3U8 before the    *)
(* builder runs, and no playlist is returned.                              *)
(***************************************************************************)
C2_MissingHeaderFails ==
    (Fetched /\ (Normalize(body) = <<>> \/ Normalize(body)[1] # EXTM3U))
        => (pc = "failed" /\ result.kind = "InvalidM3U8" /\ NoPlaylist)

\* A document whose first line is the header token followed by ":x" failed.
C2_Witness ==
    /\ pc = "failed"
    /\ result.kind = "InvalidM3U8"
    /\ lines # <<>>
    /\ lines[1] # EXTM3U
    /\ Before(lines[1], ":") = EXTM3U

(***************************************************************************)
(* C3.  After a successful parse independent_segments is true iff some     *)
(* line of the document is the independent-segments tag, wherever the line *)
(* stands, directly after a stream-info line included.                     *)
(***************************************************************************)
C3_FlagIffTagAnywhere ==
    pc = "ok" =>
        (independent_segments
            <=> TagLines(lines, EXT_X_INDEPENDENT_SEGMENTS) # {})

(***************************************************************************)
(* C3 as amended.  After a successful parse independent_segments is true   *)
(* iff some line the builder dispatches, that is a line not taken as the   *)
(* URI of the stream-info line before it, has the independent-segments tag *)
(* as its text before the first ':'.                                       *)
(***************************************************************************)
C3_FlagIffTagDispatched ==
    pc = "ok" =>
        (independent_segments
            <=> (TagLines(lines, EXT_X_INDEPENDENT_SEGMENTS)
                     \cap DispatchedFrom(lines, 1) # {}))

\* A parse ended with the flag false although the tag stood in the document,
\* as the URI line of a stream-info line.
C3_Witness ==
    /\ pc = "ok"
    /\ ~independent_segments
    /\ \E i \in 2..Len(lines) :
           /\ lines[i] = EXT_X_INDEPENDENT_SEGMENTS
           /\ Before(lines[i-1], ":") = EXT_X_STREAM_INF

(***************************************************************************)
(* C4.  After a successful parse version is a non-empty string, and "2"    *)
(* when the document has no version tag.                                   *)
(***************************************************************************)
C4_VersionNonEmpty ==
    pc = "ok" =>
        /\ version # <<>>
        /\ (TagLines(lines, EXT_X_VERSION) = {} => version = <<"2">>)

(***************************************************************************)
(* C5.  When the builder processes a stream-info line, the record appended *)
(* to variant_streams has "uri" equal to the text of the next line, or ""  *)
(* when there is none, and the cursor skips that line: nothing else of the *)
(* playlist changes in the step.                                           *)
(***************************************************************************)
C5_StreamInfTakesNextLine ==
    [][AtTag(EXT_X_STREAM_INF) =>
          /\ Len(variant_streams') = Len(variant_streams) + 1
          /\ SubSeq(variant_streams', 1, Len(variant_streams)) = variant_streams
          /\ uri \in DOMAIN variant_streams'[Len(variant_streams')]
          /\ variant_streams'[Len(variant_streams')][uri] =
                 (IF cursor < Len(lines) THEN lines[cursor + 1] ELSE <<>>)
          /\ cursor' = cursor + 2
          /\ UNCHANGED <<independent_segments, version, media_tags,
                         media_resources>>]_vars

\* The builder has just taken an independent-segments line as the URI of the
\* stream-info line before it, and the flag is still false.
C5_Witness ==
    /\ pc = "parsing"
    /\ cursor = 4
    /\ Len(lines) >= 3
    /\ Before(lines[2], ":") = EXT_X_STREAM_INF
    /\ lines[3] = EXT_X_INDEPENDENT_SEGMENTS
    /\ Len(variant_streams) = 1
    /\ variant_streams[1][uri] = lines[3]
    /\ ~independent_segments

(***************************************************************************)
(* C6.  The sequence a sorted accessor returned is a permutation of the    *)
(* stored group and is non-decreasing in the lexicographic byte order of   *)
(* the value at the sort key, a record without the key counting as "".     *)
(***************************************************************************)
C6_ReturnedSortedPermutation ==
    call.op # "none" =>
        /\ SameRecords(returned, Stored(call.op))
        /\ NonDecreasing(returned, call.sort_by)

\* get_media_resources("BANDWIDTH") returned the record without BANDWIDTH,
\* then "222552", then "77758".
C6_Witness ==
    /\ call = [op |-> "get_media_resources", sort_by |-> BANDWIDTH]
    /\ Len(returned) = 3
    /\ BANDWIDTH \notin DOMAIN returned[1]
    /\ ValueAt(returned[2], BANDWIDTH) = N222552
    /\ ValueAt(returned[3], BANDWIDTH) = N77758
    /\ media_resources = returned

(***************************************************************************)
(* C7.  Once the playlist is returned, no step changes the multiset of     *)
(* records of any group, nor version, nor independent_segments; and an     *)
(* accessor call on one group leaves the other two groups as they are,     *)
(* order included.                                                         *)
(***************************************************************************)
C7_AccessorsKeepRecords ==
    [][pc = "ok" =>
          /\ SameRecords(media_tags', media_tags)
          /\ SameRecords(variant_streams', variant_streams)
          /\ SameRecords(media_resources', media_resources)
          /\ UNCHANGED <<version, independent_segments>>
          /\ (GetMediaResources => UNCHANGED <<media_tags, variant_streams>>)
          /\ (GetMediaTags => UNCHANGED <<media_resources, variant_streams>>)
          /\ (GetVariantStreams => UNCHANGED <<media_tags, media_resources>>)
      ]_vars

\* get_media_resources("BANDWIDTH") put two records that tie on BANDWIDTH
\* after the "222552" record that the document has last, with a media tag
\* stored beside them.
C7_Witness ==
    /\ pc = "ok"
    /\ call = [op |-> "get_media_resources", sort_by |-> BANDWIDTH]
    /\ Len(media_resources) = 3
    /\ ValueAt(media_resources[1], BANDWIDTH) = N222552
    /\ ValueAt(media_resources[2], BANDWIDTH) = N77758
    /\ ValueAt(media_resources[3], BANDWIDTH) = N77758
    /\ media_resources[2] # media_resources[3]
    /\ After(lines[4], "=") = N222552 \o <<",","U","R","I","=","a">>

(***************************************************************************)
(* C8.  A sorted-accessor call leaves the order of every stored group as   *)
(* it was before the call.                                                 *)
(***************************************************************************)
C8_StoredOrderKept ==
    [][(GetMediaResources \/ GetMediaTags \/ GetVariantStreams) =>
          UNCHANGED <<media_tags, variant_streams, media_resources>>]_vars

(***************************************************************************)
(* C8 as amended.  A sorted-accessor call sorts the stored group in place  *)
(* and returns a copy of it: after the call the stored group equals the    *)
(* returned sequence, and its order is the one before the call iff the     *)
(* group was already non-decreasing in the sort key.                       *)
(***************************************************************************)
C8_StoredSortedInPlace ==
    [][\A k \in SortKeys :
          /\ get_media_resources(k) =>
                 /\ media_resources' = returned'
                 /\ (media_resources' = media_resources
                        <=> NonDecreasing(media_resources, k))
          /\ get_media_tags(k) =>
                 /\ media_tags' = returned'
                 /\ (media_tags' = media_tags <=> NonDecreasing(media_tags, k))
          /\ get_variant_streams(k) =>
                 /\ variant_streams' = returned'
                 /\ (variant_streams' = variant_streams
                        <=> NonDecreasing(variant_streams, k))]_vars

\* get_media_tags("CHANNELS") left "16/JOC" stored before "6", and the
\* document has the "6" line first.
C8_Witness ==
    /\ pc = "ok"
    /\ call = [op |-> "get_media_tags", sort_by |-> CHANNELS]
    /\ Len(lines) = 3
    /\ Len(media_tags) = 2
    /\ ValueAt(media_tags[1], CHANNELS) = <<"1","6","/","J","O","C">>
    /\ ValueAt(media_tags[2], CHANNELS) = <<"6">>
    /\ After(lines[2], "=") = <<"6">>

(***************************************************************************)
(* C9.  The payload the builder uses for a version or a media line is the  *)
(* whole text after the first ':' of the line, later ':' included.         *)
(***************************************************************************)
C9_PayloadAfterFirstColon ==
    [][/\ AtTag(EXT_X_VERSION) => version' = After(lines[cursor], ":")
       /\ AtTag(EXT_X_MEDIA) =>
              media_tags' = Append(media_tags,
                                   by_attribute(After(lines[cursor], ":")))
      ]_vars

(***************************************************************************)
(* C10.  by_attribute returns the mapping of the reference: the payload    *)
(* split on ','; an item without '=' skipped; the key the text before the  *)
(* first '=', the value the whole text after it with every quote removed;  *)
(* a later item with the same key overwriting an earlier one.              *)
(***************************************************************************)
RECURSIVE RefAttributes(_, _)
RefAttributes(map, items) ==
    IF items = <<>> THEN map
    ELSE LET item == Head(items) IN
         RefAttributes(IF FirstIndex(item, "=") = 0 THEN map
                       ELSE MapInsert(map, Before(item, "="),
                                      RemoveQuotes(After(item, "="))),
                       Tail(items))

C10_AttributesAsReference ==
    attr_done => attribute_map = RefAttributes(EmptyMap, Split(data, ","))

====
